---- MODULE Spec2Model ----
(***************************************************************************)
(* Model of src/bot.py: the Bot of team "Fast Batt".  The persistent state *)
(* is Bot.course, an ordered list of checkpoints with a mutable reached    *)
(* flag.  The host calls Bot.run once per tick; run builds a fresh         *)
(* Instructions object, runs the land-avoidance heading search, scans the  *)
(* course and returns the instructions.                                    *)
(*                                                                         *)
(* Numbers.  Latitudes and longitudes are in micro-degrees, distances and  *)
(* radii in the unit of distance_on_surface, headings in degrees.  A sail  *)
(* value is a fraction [n, d] (n/d), unnormalised, or the numpy infinity.  *)
(*                                                                         *)
(* Oracles.  world_map and distance_on_surface are external; the position  *)
(* (longitude, latitude) enters run only through their answers, so a call  *)
(* carries the answers: terrain (world_map at the position), sea (the set  *)
(* of headings whose probe point world_map classifies as sea) and dist     *)
(* (distance_on_surface from the position to each checkpoint).             *)
(***************************************************************************)
EXTENDS Integers, Sequences, FiniteSets

VARIABLES course, args, instructions, pc

vars == <<course, args, instructions, pc>>

----------------------------------------------------------------------------
(* Optional values: None is Python's None, Some(v) a set field.            *)
None == << >>
Some(v) == <<v>>

(* vendeeglobe.Checkpoint: reached defaults to False.                      *)
Checkpoint(lat, lon, r) ==
    [latitude |-> lat, longitude |-> lon, radius |-> r, reached |-> FALSE]

(* vendeeglobe.Location(longitude, latitude).                              *)
Location(lon, lat) == [longitude |-> lon, latitude |-> lat]

(* vendeeglobe.Instructions(): every field None.                           *)
Instructions ==
    [location |-> None, heading |-> None, vector |-> None,
     left |-> None, right |-> None, sail |-> None]

(* Bot.__init__: the course.  The last checkpoint is config.start          *)
(* (Les Sables-d'Olonne, latitude 46.494, longitude -1.81).                *)
InitialCourse ==
    << Checkpoint(17380000, -68900000, 10),
       Checkpoint(9355290, -80593349, 50),
       Checkpoint(8826250, -79640600, 5),
       Checkpoint(8830000, -79480000, 20),
       Checkpoint(4500000, -79250000, 50),
       Checkpoint(2806318, -168943864, 1990),
       Checkpoint(-62052286, 169214572, 50),
       Checkpoint(-15668984, 77674694, 1190),
       Checkpoint(-39438937, 19836265, 50),
       Checkpoint(14881699, -21024326, 50),
       Checkpoint(44076538, -18292936, 50),
       Checkpoint(46494000, -1810000, 5) >>

NumCheckpoints == Len(InitialCourse)

----------------------------------------------------------------------------
(* Arithmetic of the speed shaping.                                        *)

Frac(a, b) == [kind |-> "num", n |-> a, d |-> b]
Inf == [kind |-> "inf", n |-> 1, d |-> 0]
ZeroDivisionError == [kind |-> "raise", n |-> 0, d |-> 0]
One == Frac(1, 1)

(* np.linalg.norm of a scalar: its absolute value.                         *)
Norm(speed) == IF speed < 0 THEN -speed ELSE speed

(* jump = dt * np.linalg.norm(speed), a numpy float64.                     *)
Jump(a) == a.dt * Norm(a.speed)

(* Python-float division raises on a zero divisor.                         *)
TrueDivPython(radius, jump) ==
    IF jump = 0 THEN ZeroDivisionError ELSE Frac(radius, jump)

(* ch.radius / jump with jump a numpy float64: numpy's scalar division     *)
(* returns inf for a positive radius over zero (with a RuntimeWarning),    *)
(* it does not raise.                                                      *)
TrueDiv(radius, jump) ==
    IF jump = 0 THEN Inf ELSE Frac(radius, jump)

(* min(q, 1) without the clamp.                                            *)
MinOneUnclamped(q) == q

(* min(q, 1).                                                              *)
MinOne(q) ==
    IF q.kind = "inf" THEN One
    ELSE IF q.n >= q.d THEN One
    ELSE q

(* The slow-down zone without the jump.                                    *)
SpeedShapingNoJump(ch, dist, jump) ==
    IF dist < 2 * ch.radius
    THEN LET q == TrueDiv(ch.radius, jump)
         IN IF q.kind = "raise" THEN q ELSE MinOne(q)
    ELSE One

(* Lines 153-156: the sail value computed against one checkpoint.          *)
SpeedShaping(ch, dist, jump) ==
    IF dist < 2 * ch.radius + jump
    THEN LET q == TrueDiv(ch.radius, jump)
         IN IF q.kind = "raise" THEN q ELSE MinOne(q)
    ELSE One

----------------------------------------------------------------------------
(* Route scan.                                                             *)

(* ch.reached = (dist < ch.radius): an assignment instead of a set-once.   *)
MarkReachedAssign(ch, dist) == [ch EXCEPT !.reached = (dist < ch.radius)]

(* The comparison reversed.                                                *)
MarkReachedReversed(ch, dist) ==
    IF ch.radius < dist THEN [ch EXCEPT !.reached = TRUE] ELSE ch

(* A reached checkpoint also has its radius cleared.                       *)
MarkReachedClearRadius(ch, dist) ==
    IF dist < ch.radius THEN [ch EXCEPT !.reached = TRUE, !.radius = 0]
    ELSE ch

(* A local variable set instead of the checkpoint's flag.                  *)
MarkReachedLocal(ch, dist) == ch

(* Lines 158-159.                                                          *)
MarkReached(ch, dist) ==
    IF dist < ch.radius THEN [ch EXCEPT !.reached = TRUE] ELSE ch

(* Location built with its arguments swapped.                              *)
GoToSwapped(ins, ch) ==
    [ins EXCEPT !.location = Some(Location(ch.latitude, ch.longitude))]

(* Lines 161-163.                                                          *)
GoTo(ins, ch) ==
    [ins EXCEPT !.location = Some(Location(ch.longitude, ch.latitude))]

(* The scan stopping on distance instead of on the flag.                   *)
IsActiveByDistance(ch, dist) == ~(dist < ch.radius)

(* The break missing: the scan goes through the whole course.              *)
IsActiveNoBreak(ch, dist) == FALSE

(* Line 160: if not ch.reached.                                            *)
IsActive(ch, dist) == ~ch.reached

(* The flag tested before the update of lines 158-159 instead of after.    *)
RECURSIVE ScanCourseCheckFirst(_, _, _, _)
ScanCourseCheckFirst(c, i, ins, a) ==
    IF i > Len(c)
    THEN [course |-> c, instructions |-> ins, status |-> "returned"]
    ELSE LET dist == a.dist[i]
             sail == SpeedShaping(c[i], dist, Jump(a))
             ins1 == [ins EXCEPT !.sail = Some(sail)]
             c1 == [c EXCEPT ![i] = MarkReached(@, dist)]
             ch == c1[i]
         IN IF sail.kind = "raise"
            THEN [course |-> c, instructions |-> Instructions,
                  status |-> "raised"]
            ELSE IF ~c[i].reached
            THEN [course |-> c1, instructions |-> GoTo(ins1, ch),
                  status |-> "returned"]
            ELSE ScanCourseCheckFirst(c1, i + 1, ins1, a)

(* Lines 143-164: the for loop from checkpoint i on.  A raise leaves the   *)
(* flags set so far and returns no instructions.                           *)
RECURSIVE ScanCourse(_, _, _, _)
ScanCourse(c, i, ins, a) ==
    IF i > Len(c)
    THEN [course |-> c, instructions |-> ins, status |-> "returned"]
    ELSE LET dist == a.dist[i]
             jump == Jump(a)
             sail == SpeedShaping(c[i], dist, jump)
         IN IF sail.kind = "raise"
            THEN [course |-> c, instructions |-> Instructions,
                  status |-> "raised"]
            ELSE LET ins1 == [ins EXCEPT !.sail = Some(sail)]
                     c1 == [c EXCEPT ![i] = MarkReached(@, dist)]
                     ch == c1[i]
                 IN IF IsActive(ch, dist)
                    THEN [course |-> c1, instructions |-> GoTo(ins1, ch),
                          status |-> "returned"]
                    ELSE ScanCourse(c1, i + 1, ins1, a)

----------------------------------------------------------------------------
(* Land avoidance.                                                         *)

(* world_map at the probe point 0.01 degrees along new_heading.            *)
WorldMapProbe(a, new_heading) == IF new_heading \in a.sea THEN 1 ELSE 0

(* Lines 132-140: for angle_offset in range(0, 360, 45), from angle_offset *)
(* on; the heading of the first sea probe, None when the loop runs out.    *)
RECURSIVE HeadingSearch(_, _)
HeadingSearch(a, angle_offset) ==
    IF angle_offset >= 360 THEN None
    ELSE LET new_heading == (a.heading + angle_offset) % 360
         IN IF WorldMapProbe(a, new_heading) = 1 THEN Some(new_heading)
            ELSE HeadingSearch(a, angle_offset + 45)

(* The search starting at the first turn instead of the current heading.   *)
LandAvoidanceFromNext(ins, a) ==
    IF a.terrain = 0
    THEN LET h == HeadingSearch(a, 45)
         IN IF h = None THEN ins ELSE [ins EXCEPT !.heading = h]
    ELSE ins

(* The last candidate kept when the search runs out.                       *)
LandAvoidanceFallback(ins, a) ==
    IF a.terrain = 0
    THEN LET h == HeadingSearch(a, 0)
         IN IF h = None
            THEN [ins EXCEPT !.heading = Some((a.heading + 315) % 360)]
            ELSE [ins EXCEPT !.heading = h]
    ELSE ins

(* Lines 128-140.                                                          *)
LandAvoidance(ins, a) ==
    IF a.terrain = 0
    THEN LET h == HeadingSearch(a, 0)
         IN IF h = None THEN ins ELSE [ins EXCEPT !.heading = h]
    ELSE ins

(* The directive object of the previous tick reused instead of a fresh one.*)
RunResultStale(c, a) == ScanCourse(c, 1, LandAvoidance(instructions, a), a)

(* Bot.run, lines 109-166.                                                 *)
RunResult(c, a) == ScanCourse(c, 1, LandAvoidance(Instructions, a), a)

----------------------------------------------------------------------------
(* Inputs of a tick.                                                       *)

MaxNear == 2
MaxLandLeg == 2
FarDist == 20000

(* (dt, speed): a zero time step, a vessel at rest, a slow vessel sailing  *)
(* backwards, a fast vessel.                                               *)
DtSpeeds == {<<0, 100>>, <<1, 0>>, <<1, -8>>, <<1, 100>>}

Headings == {0, 350}

(* The eight probe headings of a heading.                                  *)
ProbeHeadings(h) == {(h + 45 * k) % 360 : k \in 0..7}

(* (terrain, sea) of the route-centred runs: at sea; on land with every    *)
(* probe land, with only the probe behind the vessel sea, with every probe *)
(* sea.                                                                    *)
Terrains(h) ==
    {<<1, {}>>, <<0, {}>>, <<0, {(h + 180) % 360}>>, <<0, ProbeHeadings(h)>>}

(* Distances tried against a checkpoint of radius r: its centre, its rim,  *)
(* the rim of the slow-down zone of a slow vessel, and far away.           *)
DistOf(r, cls) ==
    CASE cls = 0 -> 0
      [] cls = 1 -> r
      [] cls = 2 -> 2 * r + 8
      [] OTHER -> FarDist

(* Distance vectors: at most MaxNear consecutive checkpoints are near.     *)
DistVectors ==
    UNION { { [i \in 1..NumCheckpoints |->
                 IF i \in w..(w + MaxNear - 1)
                 THEN DistOf(InitialCourse[i].radius, g[i - w + 1])
                 ELSE FarDist] : g \in [1..MaxNear -> 0..3] }
            : w \in 1..NumCheckpoints }

(* Distance vectors with the vessel in the open sea or at the centre of    *)
(* one of the first MaxLandLeg checkpoints.                                *)
CentreVectors ==
    { [i \in 1..NumCheckpoints |-> IF i = w THEN 0 ELSE FarDist]
      : w \in 0..MaxLandLeg }

MakeArgs(dt, heading, speed, terrain, sea, dist) ==
    [dt |-> dt, heading |-> heading, speed |-> speed,
     terrain |-> terrain, sea |-> sea, dist |-> dist]

NoArgs == MakeArgs(0, 0, 0, 1, {}, [i \in 1..NumCheckpoints |-> FarDist])

----------------------------------------------------------------------------
(* The tick protocol: the host calls run, run returns, the host applies    *)
(* the instructions and drops them.                                        *)

Init ==
    /\ course = InitialCourse
    /\ args = NoArgs
    /\ instructions = Instructions
    /\ pc = "idle"

HostCall(a) ==
    /\ pc = "idle"
    /\ args' = a
    /\ pc' = "called"
    /\ UNCHANGED <<course, instructions>>

Run ==
    /\ pc = "called"
    /\ LET r == RunResult(course, args)
       IN /\ course' = r.course
          /\ instructions' = r.instructions
          /\ pc' = r.status
    /\ UNCHANGED args

HostApply ==
    /\ pc = "returned"
    /\ pc' = "idle"
    /\ args' = NoArgs
    /\ instructions' = Instructions
    /\ UNCHANGED course

(* Route-centred ticks: every distance vector, a few terrains.             *)
Next ==
    \/ \E ds \in DtSpeeds, tm \in Terrains(350), dist \in DistVectors :
          HostCall(MakeArgs(ds[1], 350, ds[2], tm[1], tm[2], dist))
    \/ Run
    \/ HostApply

Spec == Init /\ [][Next]_vars

(* Terrain-centred ticks: every answer of the eight probes.                *)
NextLand ==
    \/ \E heading \in Headings, terrain \in {0, 1}, dist \in CentreVectors :
          \E sea \in SUBSET ProbeHeadings(heading) :
             HostCall(MakeArgs(1, heading, 100, terrain, sea, dist))
    \/ Run
    \/ HostApply

SpecLand == Init /\ [][NextLand]_vars

(* The host keeps the last directive in force between ticks.               *)
HostKeep ==
    /\ pc = "returned"
    /\ pc' = "idle"
    /\ args' = NoArgs
    /\ UNCHANGED <<course, instructions>>

(* Ticks whose previous directive is still around when run is called.      *)
NextKeep ==
    \/ \E heading \in Headings, terrain \in {0, 1}, dist \in CentreVectors :
          \E sea \in SUBSET ProbeHeadings(heading) :
             HostCall(MakeArgs(1, heading, 100, terrain, sea, dist))
    \/ Run
    \/ HostKeep

SpecKeep == Init /\ [][NextKeep]_vars

(* The host keeps the arguments and the directive of the tick that ended.  *)
HostRetain ==
    /\ pc = "returned"
    /\ pc' = "idle"
    /\ UNCHANGED <<course, args, instructions>>

(* The host calls run again with the arguments of the previous call, whose *)
(* directive it still holds.                                               *)
HostCallAgain ==
    /\ pc = "idle"
    /\ instructions.sail # None
    /\ pc' = "called"
    /\ UNCHANGED <<course, args, instructions>>

(* Ticks repeated with identical inputs: a call made while a directive is  *)
(* held is a repetition of the call that returned it.                      *)
NextRepeat ==
    \/ /\ instructions.sail = None
       /\ \E ds \in DtSpeeds, tm \in Terrains(350), dist \in DistVectors :
             HostCall(MakeArgs(ds[1], 350, ds[2], tm[1], tm[2], dist))
    \/ HostCallAgain
    \/ Run
    \/ HostRetain
    \/ HostApply

SpecRepeat == Init /\ [][NextRepeat]_vars

(* Distance vectors with the vessel in the open sea or at the centre of    *)
(* any one checkpoint of the course.                                       *)
LegVectors ==
    { [i \in 1..NumCheckpoints |-> IF i = w THEN 0 ELSE FarDist]
      : w \in 0..NumCheckpoints }

(* A call with the vessel within the radius of the lowest-index unreached  *)
(* checkpoint.                                                             *)
HostCallNear ==
    /\ \E i \in 1..Len(course) : ~course[i].reached
    /\ \E ds \in DtSpeeds, dist \in LegVectors :
          /\ \E i \in 1..Len(course) :
                /\ ~course[i].reached
                /\ \A j \in 1..(i - 1) : course[j].reached
                /\ dist[i] < course[i].radius
          /\ HostCall(MakeArgs(ds[1], 350, ds[2], 1, {}, dist))

(* Ticks of a vessel that sails from checkpoint to checkpoint.             *)
NextProgress ==
    \/ \E ds \in DtSpeeds, dist \in LegVectors :
          HostCall(MakeArgs(ds[1], 350, ds[2], 1, {}, dist))
    \/ HostCallNear
    \/ Run
    \/ HostApply

(* run always returns and the host keeps ticking (weak fairness); the      *)
(* vessel eventually gets within the radius of the active checkpoint       *)
(* (strong fairness of HostCallNear, the environment assumption).          *)
SpecProgress ==
    /\ Init
    /\ [][NextProgress]_vars
    /\ WF_vars(Run)
    /\ WF_vars(HostApply)
    /\ SF_vars(HostCallNear)

----------------------------------------------------------------------------
(* Vocabulary of the properties.                                           *)

Indices == 1..Len(course)

AllReached(c) == \A i \in 1..Len(c) : c[i].reached

Unreached == {i \in Indices : ~course[i].reached}

(* The lowest-index unreached checkpoint (when there is one).              *)
Active == CHOOSE i \in Unreached : \A j \in Unreached : i <= j

(* Checkpoint i was scanned by the tick that just ended: every checkpoint  *)
(* before it is reached.                                                   *)
Scanned(i) == \A j \in 1..(i - 1) : course[j].reached

(* The checkpoint the sail was last computed against.                      *)
LastScanned == IF Unreached = {} THEN Len(course) ELSE Active

(* Offsets k (in units of 45 degrees) whose probe point is sea.            *)
SeaOffsets == {k \in 0..7 : (args.heading + 45 * k) % 360 \in args.sea}

(* The first checkpoint at which the scan of course c stops under call a:  *)
(* neither reached already nor within its radius; Len(c) + 1 if none.      *)
StopIndex(c, a) ==
    LET stops == {i \in 1..Len(c) :
                    ~(c[i].reached \/ a.dist[i] < c[i].radius)}
    IN IF stops = {} THEN Len(c) + 1
       ELSE CHOOSE i \in stops : \A j \in stops : i <= j

----------------------------------------------------------------------------
(* C1: once a checkpoint's reached flag is true it is true after every     *)
(* later tick; no step sets a reached flag back to false.                  *)
C1_ReachedMonotonic ==
    [][\A i \in Indices : course[i].reached => course'[i].reached]_vars

(* A tick has ended with the vessel outside the radius of a checkpoint     *)
(* that is reached.                                                        *)
C1_Witness ==
    /\ pc = "returned"
    /\ \E i \in Indices :
          course[i].reached /\ args.dist[i] >= course[i].radius

(* C2: at the end of every call the location is set exactly when some      *)
(* checkpoint is unreached, and then it is the (longitude, latitude) of    *)
(* the lowest-index unreached checkpoint.                                  *)
C2_LocationIsActiveCheckpoint ==
    pc = "returned" =>
        /\ (instructions.location # None) <=> (Unreached # {})
        /\ Unreached # {} =>
              instructions.location =
                 Some([longitude |-> course[Active].longitude,
                       latitude |-> course[Active].latitude])

(* A tick has ended with some checkpoints reached and the next one as the  *)
(* target.                                                                 *)
C2_Witness ==
    /\ pc = "returned"
    /\ Unreached # {}
    /\ Active > 1
    /\ instructions.location # None

(* C3: the sail of every returned directive is set and lies in [0,1], and  *)
(* it is exactly 1 when the distance to the last scanned checkpoint is at  *)
(* least 2*radius + jump.                                                  *)
C3_SailInUnitInterval ==
    pc = "returned" =>
        /\ instructions.sail # None
        /\ LET s == instructions.sail[1]
               ch == course[LastScanned]
           IN /\ s.kind = "num"
              /\ s.d > 0
              /\ 0 <= s.n
              /\ s.n <= s.d
              /\ args.dist[LastScanned] >= 2 * ch.radius + Jump(args)
                    => s.n = s.d

(* A tick has ended with a sail strictly between 0 and 1.                  *)
C3_Witness ==
    /\ pc = "returned"
    /\ instructions.sail # None
    /\ instructions.sail[1].n < instructions.sail[1].d
    /\ 0 < instructions.sail[1].n

(* C4: with jump = 0 and the vessel within 2*radius of a scanned           *)
(* checkpoint the tick returns a directive with a finite sail; it does not *)
(* raise.                                                                  *)
C4_ZeroJumpReturns ==
    ( /\ pc \in {"returned", "raised"}
      /\ Jump(args) = 0
      /\ \E i \in Indices :
            Scanned(i) /\ args.dist[i] < 2 * course[i].radius )
    => /\ pc = "returned"
       /\ instructions.sail # None
       /\ instructions.sail[1].kind = "num"

(* A tick with jump = 0 has returned full sail inside the slow-down zone   *)
(* of the active checkpoint.                                               *)
C4_Witness ==
    /\ pc = "returned"
    /\ Jump(args) = 0
    /\ Unreached # {}
    /\ args.dist[LastScanned] < 2 * course[LastScanned].radius
    /\ instructions.sail = Some(One)

(* C5: on land with at least one sea probe, the heading is                 *)
(* (heading + 45*k) mod 360 for the smallest k whose probe is sea, and its *)
(* probe is sea.                                                           *)
C5_FirstSeaHeading ==
    (pc = "returned" /\ args.terrain = 0 /\ SeaOffsets # {}) =>
        \E k \in SeaOffsets :
            /\ \A m \in SeaOffsets : k <= m
            /\ instructions.heading = Some((args.heading + 45 * k) % 360)
            /\ instructions.heading[1] \in args.sea

(* On land with only the probe behind the vessel sea, heading 350: the     *)
(* directive's heading is 170.                                             *)
C5_Witness ==
    /\ pc = "returned"
    /\ args.terrain = 0
    /\ args.heading = 350
    /\ args.sea = {170}
    /\ instructions.heading = Some(170)

(* C6: on land with all eight probes land the tick returns, the heading is *)
(* unset and the route scan was performed (sail set, checkpoints in reach  *)
(* marked, location set iff some checkpoint is unreached).                 *)
C6_AllLandLeavesHeadingUnset ==
    (pc \in {"returned", "raised"} /\ args.terrain = 0 /\ SeaOffsets = {}) =>
        /\ pc = "returned"
        /\ instructions.heading = None
        /\ instructions.sail # None
        /\ (instructions.location # None) <=> (Unreached # {})
        /\ \A i \in Indices :
              (Scanned(i) /\ args.dist[i] < course[i].radius)
                 => course[i].reached

(* Such a tick has ended with a checkpoint in reach marked and a target.   *)
C6_Witness ==
    /\ pc = "returned"
    /\ args.terrain = 0
    /\ SeaOffsets = {}
    /\ instructions.heading = None
    /\ instructions.location # None
    /\ \E i \in Indices : course[i].reached /\ args.dist[i] < course[i].radius

(* C7: in the course-complete state every returned directive has a         *)
(* navigation target (heading, location, vector or relative turn) set      *)
(* together with the sail.                                                 *)
C7_CourseCompleteDirective ==
    (pc = "returned" /\ AllReached(course)) =>
        /\ instructions.sail # None
        /\ \/ instructions.heading # None
           \/ instructions.location # None
           \/ instructions.vector # None
           \/ instructions.left # None
           \/ instructions.right # None

(* C8 as stated: in any reachable route state, a tick with the vessel at   *)
(* the exact coordinates of the final checkpoint leaves it reached.        *)
C8_Original ==
    (pc = "returned" /\ args.dist[Len(course)] = 0)
        => course[Len(course)].reached

(* C8 amended: a tick with the vessel at the exact coordinates of the      *)
(* final checkpoint, every earlier checkpoint being reached at the end of  *)
(* the tick, leaves the final checkpoint reached; and once the course is   *)
(* complete it stays complete and every tick returns no location.          *)
C8_FinalCheckpoint ==
    /\ []( ( /\ pc = "returned"
             /\ args.dist[Len(course)] = 0
             /\ \A j \in 1..(Len(course) - 1) : course[j].reached )
           => course[Len(course)].reached )
    /\ []( (pc = "returned" /\ AllReached(course))
           => instructions.location = None )
    /\ [][AllReached(course) => AllReached(course')]_vars

(* A tick at the final checkpoint's coordinates has ended with the course  *)
(* complete and no location.                                               *)
C8_Witness ==
    /\ pc = "returned"
    /\ args.dist[Len(course)] = 0
    /\ AllReached(course)
    /\ instructions.location = None

(* C9: no returned directive has both the heading and the location set.    *)
C9_OneNavigationalField ==
    pc = "returned" =>
        ~(instructions.heading # None /\ instructions.location # None)

(* C10: one call marks every checkpoint before the first one that is       *)
(* neither reached nor in reach, and leaves the flags from that one on     *)
(* unchanged.                                                              *)
C10_ScanStopsAtFirstUnreached ==
    [][(pc = "called" /\ pc' = "returned") =>
          LET s == StopIndex(course, args)
          IN \A i \in Indices :
                course'[i].reached =
                   (IF i < s THEN TRUE ELSE course[i].reached)]_vars

(* A tick has ended with two consecutive checkpoints in reach both         *)
(* reached and the scan stopped at the next one.                           *)
C10_Witness ==
    /\ pc = "returned"
    /\ \E i \in 1..(Len(course) - 2) :
          /\ args.dist[i] < course[i].radius
          /\ args.dist[i + 1] < course[i + 1].radius
          /\ course[i].reached
          /\ course[i + 1].reached
          /\ ~course[i + 2].reached

(* The sail the spec prescribes against checkpoint i for a positive jump:  *)
(* min(radius / jump, 1) inside the slow-down zone, else 1.                *)
PrescribedSail(i) ==
    LET r == course[i].radius
        jump == Jump(args)
    IN IF args.dist[i] < 2 * r + jump /\ r < jump
       THEN [kind |-> "num", n |-> r, d |-> jump]
       ELSE [kind |-> "num", n |-> 1, d |-> 1]

(* C11: when an active checkpoint exists at the end of a tick with         *)
(* jump > 0, the sail returned is the one computed against the active      *)
(* checkpoint alone, whatever was computed against the checkpoints scanned *)
(* before it.                                                              *)
C11_SailOfActiveCheckpoint ==
    (pc = "returned" /\ Unreached # {} /\ Jump(args) > 0) =>
        instructions.sail = Some(PrescribedSail(Active))

(* A tick has ended with a reduced sail against the active checkpoint      *)
(* after scanning a reached checkpoint whose own sail was different.       *)
C11_Witness ==
    /\ pc = "returned"
    /\ Unreached # {}
    /\ Active > 1
    /\ Jump(args) > 0
    /\ instructions.sail # None
    /\ instructions.sail[1].n < instructions.sail[1].d
    /\ PrescribedSail(Active - 1) # PrescribedSail(Active)

(* C12: the directive is built fresh each tick and only land avoidance     *)
(* writes the heading: a tick at a sea position returns no heading,        *)
(* whatever the previous directive and the probe answers; and the flags,   *)
(* the sail and the location a tick produces are those of the route scan   *)
(* alone, started from a fresh directive.                                  *)
C12_HeadingOnlyFromLandAvoidance ==
    /\ []((pc = "returned" /\ args.terrain = 1)
             => instructions.heading = None)
    /\ [][(pc = "called" /\ pc' = "returned") =>
             LET scan == ScanCourse(course, 1, Instructions, args)
             IN /\ course' = scan.course
                /\ instructions'.sail = scan.instructions.sail
                /\ instructions'.location = scan.instructions.location]_vars

(* A call at a sea position, all probes sea, made while the previous       *)
(* directive still holds a heading override.                               *)
C12_Witness ==
    /\ pc = "called"
    /\ args.terrain = 1
    /\ args.sea = ProbeHeadings(args.heading)
    /\ instructions.heading # None

(* C13: run changes nothing of the course but reached flags: after any     *)
(* sequence of ticks the course has its length and order of construction   *)
(* and every checkpoint its original latitude, longitude and radius.       *)
C13_CourseDataUnchanged ==
    /\ Len(course) = Len(InitialCourse)
    /\ \A i \in 1..Len(InitialCourse) :
          /\ course[i].latitude = InitialCourse[i].latitude
          /\ course[i].longitude = InitialCourse[i].longitude
          /\ course[i].radius = InitialCourse[i].radius

(* A tick has ended with some flags set by run.                            *)
C13_Witness ==
    /\ pc = "returned"
    /\ \E i \in Indices : course[i].reached /\ args.dist[i] < course[i].radius
    /\ course # InitialCourse

(* C14: the reached checkpoints form a prefix of the course: no checkpoint *)
(* is reached while one with a lower index is unreached.                   *)
C14_ReachedIsPrefix ==
    \A i \in Indices : \A j \in Indices :
        (i < j /\ course[j].reached) => course[i].reached

(* A tick has ended with the vessel inside the radius of a checkpoint      *)
(* after the active one, which stays unreached.                            *)
C14_Witness ==
    /\ pc = "returned"
    /\ Unreached # {}
    /\ Active > 1
    /\ \E j \in Indices :
          /\ j > Active
          /\ args.dist[j] < course[j].radius
          /\ ~course[j].reached

(* C15: a call repeated with the inputs of the call before it changes no   *)
(* reached flag and returns a directive equal to the previous one.         *)
C15_RepeatedTickIdempotent ==
    [][(pc = "called" /\ instructions.sail # None /\ pc' # "called") =>
          /\ pc' = "returned"
          /\ course' = course
          /\ instructions'.heading = instructions.heading
          /\ instructions'.location = instructions.location
          /\ instructions'.sail = instructions.sail]_vars

(* A repeated call is in flight after a tick that marked a checkpoint and  *)
(* set a heading and a location.                                           *)
C15_Witness ==
    /\ pc = "called"
    /\ instructions.sail # None
    /\ instructions.heading # None
    /\ instructions.location # None
    /\ \E i \in Indices : course[i].reached /\ args.dist[i] < course[i].radius

NumReached(c) == Cardinality({i \in 1..Len(c) : c[i].reached})

(* C16: if, whenever a checkpoint is active, a tick eventually occurs with *)
(* the vessel within its radius, the course is eventually complete; and    *)
(* every such tick strictly increases the number of reached checkpoints.   *)
C16_CourseEventuallyComplete ==
    /\ <>AllReached(course)
    /\ [][( /\ pc = "called"
            /\ Unreached # {}
            /\ args.dist[Active] < course[Active].radius
            /\ pc' # "called" )
          => NumReached(course') > NumReached(course)]_vars

(* The course is complete after a tick within the radius of the final      *)
(* checkpoint.                                                             *)
C16_Witness ==
    /\ pc = "returned"
    /\ AllReached(course)
    /\ args.dist[Len(course)] < course[Len(course)].radius
    /\ \A i \in 1..(Len(course) - 1) : args.dist[i] >= course[i].radius

====
